---------------------------- MODULE Spec2Model ----------------------------
(***************************************************************************)
(* Model of src/fin_overview.py: the invoice aging report.                 *)
(*                                                                         *)
(*   generate_report  reads a CSV, detects the schema (Xero export or      *)
(*                    canonical), coerces the fields, cuts the frame by    *)
(*                    currency and writes one worksheet per currency.      *)
(*   process_currency_data  filters, sorts by Customer, adds Balance,      *)
(*                    Status and Color.                                    *)
(*   write_to_excel   scans the sorted rows, emits the data rows, the      *)
(*                    subtotal rows and the grand total.                   *)
(*   add_customer_balance_chart  builds the customer/balance summary.      *)
(*   calculate_status the aging classifier.                                *)
(*                                                                         *)
(* Encoding of the values.                                                 *)
(*   - A text cell is a string.  A missing cell of a text (object) column  *)
(*     is the float nan of pandas, written NaN here.                       *)
(*   - A numeric cell is <<v>> for the number v and <<>> for nan (NaNf).   *)
(*     Amounts are integers: floating-point rounding is not modelled.      *)
(*   - A date cell is <<d>> for the day number d (days since 1970-01-01)   *)
(*     and <<>> for NaT.  Times of day are not modelled.                   *)
(*   - A DataFrame is [columns, rows]: rows is the sequence of the rows    *)
(*     in frame order, each a function from the column names to cells      *)
(*     plus the field "index", the row's label in the pandas index.        *)
(*   - Python's None is the string None.                                   *)
(***************************************************************************)
EXTENDS Integers, Sequences, FiniteSets, TLC

VARIABLES
    pc,                 \* position in generate_report / write_to_excel
    csv,                \* the frame pd.read_csv returned (kept for reference)
    df,                 \* generate_report's df
    other_currencies,   \* the currencies of the "other" loop still to do
    currency,           \* write_to_excel's currency argument
    currency_df,        \* write_to_excel's df argument
    ret,                \* where generate_report continues after write_to_excel
    pos,                \* number of rows df.iterrows() has yielded
    current_customer,   \* write_to_excel's scan state
    customer_balances,  \* write_to_excel's accumulator
    ws,                 \* the rows appended to the worksheet being written
    wb,                 \* the worksheets completed, in creation order
    saved,              \* the workbook written to output_path, or None
    returned,           \* what generate_report gave its caller
    printed,            \* what generate_report printed / logged as errors
    due_date,           \* calculate_status's argument (SpecStatus)
    status              \* calculate_status's result   (SpecStatus)

vars == <<pc, csv, df, other_currencies, currency, currency_df, ret, pos,
          current_customer, customer_balances, ws, wb, saved, returned,
          printed, due_date, status>>

(***************************************************************************)
(* Bounds of the model.                                                    *)
(***************************************************************************)
\* rows of a canonical input file
MaxRows == 3
\* line-item rows of a Xero export
MaxLines == 3
\* calculate_status is applied to due dates within MaxDays of today
MaxDays == 62

(***************************************************************************)
(* Python and pandas values.                                               *)
(***************************************************************************)
None == "<None>"
NaN == "<nan>"
NaNf == << >>
NaT == << >>

\* pd.isna on a text cell / on a numeric or date cell
IsNaText(x) == x = NaN
IsNaNum(x) == x = << >>

\* Python truthiness of current_customer: None and '' are falsy, a non-empty
\* string and the float nan are truthy.
Truthy(x) == x # None /\ x # ""

\* == and != on text cells: nan is unequal to everything, itself included.
PyEq(a, b) == ~IsNaText(a) /\ ~IsNaText(b) /\ a = b
PyNe(a, b) == ~PyEq(a, b)

\* float addition: nan propagates
FAdd(a, b) == IF IsNaNum(a) \/ IsNaNum(b) THEN NaNf ELSE <<a[1] + b[1]>>
FSub(a, b) == IF IsNaNum(a) \/ IsNaNum(b) THEN NaNf ELSE <<a[1] - b[1]>>

\* Python's builtin sum over a list of floats: 0 + x1 + x2 + ...
RECURSIVE PySum(_)
PySum(xs) == IF xs = << >> THEN <<0>>
             ELSE FAdd(PySum(SubSeq(xs, 1, Len(xs) - 1)), xs[Len(xs)])

\* pandas Series.sum(): skipna=True, min_count=0
RECURSIVE PdSum(_)
PdSum(xs) == IF xs = << >> THEN <<0>>
             ELSE IF IsNaNum(xs[Len(xs)]) THEN PdSum(SubSeq(xs, 1, Len(xs) - 1))
             ELSE FAdd(PdSum(SubSeq(xs, 1, Len(xs) - 1)), xs[Len(xs)])

\* The strings of the model in Python's str order (code point order).
StrOrder == <<"Acme", "Bolt", "Cole", "INV1", "INV2", "INV3">>
StrRank(s) == CHOOSE i \in 1..Len(StrOrder) : StrOrder[i] = s
StrLess(a, b) == StrRank(a) < StrRank(b)

Range(s) == {s[i] : i \in 1..Len(s)}
Column(rows, c) == [i \in 1..Len(rows) |-> rows[i][c]]

(***************************************************************************)
(* calculate_status(due_date, today)                                       *)
(***************************************************************************)
\* today = datetime(2025, 11, 11) as a day number
Today == 20403
DueSoonDays == 7
DueLaterDays == 60

\* the label f"Due in {days_diff} days"
DueIn(days) == [text |-> "Due in {} days", days |-> <<days>>]
Label(s) == [text |-> s, days |-> << >>]

DaysDiff(due, today) == due[1] - today

Overdue(days_diff) == days_diff < 0
\* DueSoon with the boundary day left out
DueSoonExclusive(days_diff) == days_diff < DueSoonDays
DueSoon(days_diff) == days_diff <= DueSoonDays
DueLater(days_diff) == days_diff <= DueLaterDays

calculate_status(due, today) ==
    IF IsNaNum(due) THEN [label |-> Label("No Due Date"), color |-> None]
    ELSE LET days_diff == DaysDiff(due, today) IN
         IF Overdue(days_diff) THEN [label |-> Label("Overdue"), color |-> "red"]
         ELSE IF DueSoon(days_diff)
              THEN [label |-> IF days_diff > 0 THEN DueIn(days_diff)
                                               ELSE Label("Due Today"),
                    color |-> "yellow"]
         ELSE IF DueLater(days_diff)
              THEN [label |-> DueIn(days_diff), color |-> "green"]
         ELSE [label |-> DueIn(days_diff), color |-> None]

(***************************************************************************)
(* generate_report: schema detection and Xero consolidation.               *)
(***************************************************************************)
xero_mapping ==
    [ContactName |-> "Customer", InvoiceNumber |-> "Invoice #",
     DueDate |-> "Due Date", Total |-> "Total",
     InvoiceAmountPaid |-> "Paid", Currency |-> "Currency"]

required_columns ==
    <<"Customer", "Invoice #", "Due Date", "Total", "Paid", "Currency">>

\* all(col in df.columns for col in xero_mapping.keys())
has_xero_columns(columns) == \A col \in DOMAIN xero_mapping : col \in columns

\* [col for col in required_columns if col not in df.columns]
missing_cols(columns) ==
    LET present(col) == col \in columns
    IN  SelectSeq(required_columns, LAMBDA col : ~present(col))

\* df.rename(columns=xero_mapping): a column the mapping names gets its new
\* name, every other column keeps its own.
Renamed(col) == IF col \in DOMAIN xero_mapping THEN xero_mapping[col] ELSE col
Rename(frame) ==
    LET old(new) == CHOOSE col \in frame.columns : Renamed(col) = new
        cols == {Renamed(col) : col \in frame.columns}
    IN  [columns |-> cols,
         rows |-> [i \in 1..Len(frame.rows) |->
                     [c \in cols \cup {"index"} |->
                        IF c = "index" THEN frame.rows[i]["index"]
                        ELSE frame.rows[i][old(c)]]]]

\* The strings of S in ascending order (groupby sorts its keys).
SortStrings(S) ==
    CHOOSE s \in [1..Cardinality(S) -> S] :
        \A i, j \in 1..Cardinality(S) : i < j => StrLess(s[i], s[j])

Min(S) == CHOOSE x \in S : \A y \in S : x <= y

\* First taking the cell of the group's first row, blank or not
FirstRowCell(rows, key, col) ==
    rows[Min({i \in 1..Len(rows) : rows[i]["Invoice #"] = key})][col]

\* GroupBy.first: per column, the first value of the group that is not null
\* (nan when the group has none).
First(rows, key, col) ==
    LET hits == {i \in 1..Len(rows) :
                    rows[i]["Invoice #"] = key /\ ~IsNaText(rows[i][col])}
    IN  IF hits = {} THEN NaN ELSE rows[Min(hits)][col]

\* df.groupby('Invoice #').agg({... 'first'}).reset_index(): one row per
\* Invoice # that is not null, in ascending key order, with a fresh index.
Consolidate(frame) ==
    LET rows == frame.rows
        keys == SortStrings({rows[i]["Invoice #"] : i \in 1..Len(rows)} \ {NaN})
    IN  [columns |-> Range(required_columns),
         rows |-> [k \in 1..Len(keys) |->
                     [c \in Range(required_columns) \cup {"index"} |->
                        IF c = "index" THEN k - 1
                        ELSE IF c = "Invoice #" THEN keys[k]
                        ELSE First(rows, keys[k], c)]]]

(***************************************************************************)
(* generate_report: field coercion.                                        *)
(***************************************************************************)
\* The date texts the model's files hold, with the day each parses to.
DateText ==
    ("2025-11-04" :> Today - 7) @@ ("2025-11-11" :> Today) @@
    ("2025-11-14" :> Today + 3) @@ ("2025-12-31" :> Today + 50) @@
    ("2026-03-01" :> Today + 110)
\* The number texts the model's files hold.
NumText == ("0" :> 0) @@ ("5" :> 5) @@ ("10" :> 10) @@ ("30" :> 30)

\* pd.to_datetime(..., errors='coerce'), pd.to_numeric(..., errors='coerce')
to_datetime(cell) == IF cell \in DOMAIN DateText THEN <<DateText[cell]>> ELSE NaT
to_numeric(cell) == IF cell \in DOMAIN NumText THEN <<NumText[cell]>> ELSE NaNf
\* fillna that leaves the null in place
fillna_skipped(x, value) == x
fillna(x, value) == IF IsNaNum(x) THEN <<value>> ELSE x

Coerce(frame) ==
    [frame EXCEPT !.rows =
        [i \in 1..Len(frame.rows) |->
            [frame.rows[i] EXCEPT
                !["Due Date"] = to_datetime(@),
                !["Total"] = to_numeric(@),
                !["Paid"] = fillna(to_numeric(@), 0)]]]

(***************************************************************************)
(* process_currency_data(df, currency, today)                              *)
(***************************************************************************)
Perms(n) == {p \in [1..n -> 1..n] : \A i, j \in 1..n : i # j => p[i] # p[j]}

\* df[df['Currency'] == currency]: the rows whose Currency compares equal.
FilterCurrency(rows, curr) ==
    LET keep(r) == PyEq(r["Currency"], curr)
    IN  SelectSeq(rows, keep)

\* Where sort_values may put the row at position a before the row at position
\* b when their Customers tie.  sort_values('Customer') runs with pandas'
\* default kind='quicksort', which numpy documents as not stable: among rows
\* with equal Customer any order is a possible outcome.
TieOrder(a, b) == TRUE

\* currency_df.sort_values('Customer'): rows with a Customer come first in
\* ascending order; the rows whose Customer is nan are appended after them
\* in their frame order (na_position='last').
SortByCustomer(rows) ==
    LET n == Len(rows)
        cust(i) == rows[i]["Customer"]
        ok(p) == \A i, j \in 1..n : i < j =>
                    IF IsNaText(cust(p[i]))
                    THEN IsNaText(cust(p[j])) /\ p[i] < p[j]
                    ELSE IsNaText(cust(p[j]))
                         \/ StrLess(cust(p[i]), cust(p[j]))
                         \/ (cust(p[i]) = cust(p[j]) /\ TieOrder(p[i], p[j]))
    IN  {[i \in 1..n |-> rows[p[i]]] : p \in {q \in Perms(n) : ok(q)}}

\* currency_df['Balance'] = currency_df['Total'] - currency_df['Paid']
Balance(r) == FSub(r["Total"], r["Paid"])

\* the Balance, Status and Color columns added to a row
Annotate(r, today) ==
    LET st == calculate_status(r["Due Date"], today)
    IN  [c \in DOMAIN r \cup {"Balance", "Status", "Color"} |->
            IF c = "Balance" THEN Balance(r)
            ELSE IF c = "Status" THEN st.label
            ELSE IF c = "Color" THEN st.color
            ELSE r[c]]

\* process_currency_data without the check for an empty subset
process_currency_data_unchecked(frame, curr, today) ==
    {[columns |-> frame.columns \cup {"Balance", "Status", "Color"},
      rows |-> [i \in 1..Len(sorted) |-> Annotate(sorted[i], today)]]
     : sorted \in SortByCustomer(FilterCurrency(frame.rows, curr))}

\* The frames process_currency_data may return; the empty set stands for
\* the return of None (currency_df.empty).
process_currency_data(frame, curr, today) ==
    LET sub == FilterCurrency(frame.rows, curr)
    IN  IF sub = << >> THEN {}
        ELSE {[columns |-> frame.columns \cup {"Balance", "Status", "Color"},
               rows |-> [i \in 1..Len(sorted) |-> Annotate(sorted[i], today)]]
              : sorted \in SortByCustomer(sub)}

(***************************************************************************)
(* write_to_excel(df, ws, currency, today)                                 *)
(***************************************************************************)
HeaderRow == [kind |-> "header"]
BlankRow == [kind |-> "blank"]
\* ['', f"Subtotal: {current_customer}", '', '', '', '', '', sum(customer_balances)]
SubtotalRow(customer, balances) ==
    [kind |-> "subtotal", customer |-> customer, value |-> PySum(balances)]
\* [seq_num, Customer, Invoice #, Status, Due Date, Total, Paid, Balance],
\* with the fill the row's Color selects
DataRow(seq_num, row) ==
    [kind |-> "data", seq |-> seq_num, Customer |-> row["Customer"],
     Invoice |-> row["Invoice #"], Status |-> row["Status"],
     DueDate |-> row["Due Date"], Total |-> row["Total"],
     Paid |-> row["Paid"], Balance |-> row["Balance"],
     fill |-> row["Color"]]
\* ['', f"Grand Total Balance: {currency} {grand_total:,.2f}", ..., grand_total]
GrandTotalRow(curr, grand_total) ==
    [kind |-> "grand", currency |-> curr, value |-> grand_total]

\* if current_customer and current_customer != row['Customer']
CustomerChanged(current, row) ==
    Truthy(current) /\ PyNe(current, row["Customer"])

\* invoice_count >= 2 / len(customer_balances) >= 2
MinSubtotalInvoices == 2
\* NeedsSubtotal off by one
NeedsSubtotalAbove(balances) == Len(balances) > MinSubtotalInvoices
NeedsSubtotal(balances) == Len(balances) >= MinSubtotalInvoices

\* CloseGroup with the separator row written before the subtotal
CloseGroupBlankFirst(current, balances) ==
    <<BlankRow>> \o (IF NeedsSubtotal(balances)
                     THEN <<SubtotalRow(current, balances)>> ELSE << >>)
\* the rows the closing of a group appends at a customer change
CloseGroup(current, balances) ==
    (IF NeedsSubtotal(balances) THEN <<SubtotalRow(current, balances)>>
     ELSE << >>) \o <<BlankRow>>

\* the rows appended after the loop for the last group
FinalSubtotal(current, balances) ==
    IF NeedsSubtotal(balances) THEN <<SubtotalRow(current, balances)>>
    ELSE << >>

\* grand_total = df['Balance'].sum()
GrandTotal(frame) == PdSum(Column(frame.rows, "Balance"))

(***************************************************************************)
(* add_customer_balance_chart(ws, df, currency, start_row)                 *)
(***************************************************************************)
\* df.groupby('Customer', as_index=False)['Balance'].sum(): one entry per
\* Customer that is not null, in ascending order, each the skipna sum.
GroupSum(rows, customer) ==
    LET mine(r) == r["Customer"] = customer
    IN  PdSum(Column(SelectSeq(rows, mine), "Balance"))

GroupByCustomer(rows) ==
    LET keys == SortStrings({rows[i]["Customer"] : i \in 1..Len(rows)} \ {NaN})
    IN  [k \in 1..Len(keys) |->
            [Customer |-> keys[k], Balance |-> GroupSum(rows, keys[k])]]

\* SortDescending with ascending left at its default
SortAscending(entries) ==
    LET n == Len(entries)
        ok(p) == \A i, j \in 1..n : i < j =>
                    entries[p[i]].Balance[1] <= entries[p[j]].Balance[1]
    IN  {[i \in 1..n |-> entries[p[i]]] : p \in {q \in Perms(n) : ok(q)}}

\* .sort_values('Balance', ascending=False): descending by Balance, any
\* order among equal balances (quicksort again).
SortDescending(entries) ==
    LET n == Len(entries)
        ok(p) == \A i, j \in 1..n : i < j =>
                    entries[p[i]].Balance[1] >= entries[p[j]].Balance[1]
    IN  {[i \in 1..n |-> entries[p[i]]] : p \in {q \in Perms(n) : ok(q)}}

Summary(frame) == SortDescending(GroupByCustomer(frame.rows))

(***************************************************************************)
(* The input files of the model.                                           *)
(***************************************************************************)
InvoiceIds == <<"INV1", "INV2", "INV3", "INV4", "INV5", "INV6">>

\* a frame as pd.read_csv builds it: the index is 0, 1, 2, ...
Frame(columns, cells) ==
    [columns |-> columns,
     rows |-> [i \in 1..Len(cells) |->
                 [c \in columns \cup {"index"} |->
                    IF c = "index" THEN i - 1 ELSE cells[i][c]]]]

Seqs(S, lo, hi) == UNION {[1..n -> S] : n \in lo..hi}

Cells(customer, invoice, due, total, paid, curr) ==
    ("Customer" :> customer) @@ ("Invoice #" :> invoice) @@
    ("Due Date" :> due) @@ ("Total" :> total) @@ ("Paid" :> paid) @@
    ("Currency" :> curr)

\* Header variants: every set of canonical and Xero column names, over two
\* fixed invoices.  A file holding the full Xero set together with a
\* canonical name the renaming would duplicate is left out.
AllHeaders == DOMAIN xero_mapping \cup Range(required_columns)
HeaderSets ==
    {H \in SUBSET AllHeaders :
        ~(has_xero_columns(H)
          /\ \E a, b \in H : a # b /\ Renamed(a) = Renamed(b))}
SampleCells ==
    <<Cells("Acme", "INV1", "2025-11-14", "30", "5", "USD"),
      Cells("Acme", "INV2", "2025-11-04", "10", "0", "USD"),
      Cells("Bolt", "INV3", "2025-12-31", "30", "0", "EUR")>>
HeaderInputs ==
    {Frame(H, [i \in 1..Len(SampleCells) |->
                 [c \in H |-> SampleCells[i][Renamed(c)]]]) : H \in HeaderSets}

\* Xero exports: line-item rows; an invoice may repeat, and the cells of a
\* line may be blank.
XeroLine(invoice, b) ==
    ("InvoiceNumber" :> invoice) @@ ("ContactName" :> b[1]) @@
    ("DueDate" :> b[2]) @@ ("Total" :> b[3]) @@
    ("InvoiceAmountPaid" :> b[4]) @@ ("Currency" :> b[5])
LineCells ==
    {<<"Acme", "2025-11-14", "10", "5", "USD">>,
     <<"Bolt", "2025-11-04", "30", "0", "EUR">>,
     <<NaN, NaN, "10", NaN, "USD">>,
     <<"Bolt", "2025-11-04", NaN, "0", NaN>>}
XeroInputs ==
    {Frame(DOMAIN xero_mapping, cells) :
        cells \in Seqs({XeroLine(inv, b) : inv \in {"INV1", "INV2", NaN},
                                           b \in LineCells}, 0, MaxLines)}

\* Canonical files that vary the currencies.
CurrencyCells == {"USD", "EUR", "GBP", "JPY", NaN}
CurrencyInputs ==
    {Frame(Range(required_columns),
           [i \in 1..Len(pick) |->
              Cells(pick[i][1], InvoiceIds[i], "2025-11-14", "10", "0", pick[i][2])])
     : pick \in Seqs({"Acme", "Bolt"} \X CurrencyCells, 0, MaxRows)}

\* Canonical files of one currency that vary the customers and the totals.
CustomerInputs ==
    {Frame(Range(required_columns),
           [i \in 1..Len(pick) |->
              Cells(pick[i][1], InvoiceIds[i], "2025-11-11", pick[i][2], "5", "USD")])
     : pick \in Seqs({"Acme", "Bolt", NaN} \X {"10", "30", NaN}, 0, MaxRows)}

\* Canonical files of one currency, one row longer, over three customers.
GroupInputs ==
    {Frame(Range(required_columns),
           [i \in 1..Len(pick) |->
              Cells(pick[i], InvoiceIds[i], "2026-03-01",
                    IF i % 2 = 1 THEN "10" ELSE "30", "0", "EUR")])
     : pick \in Seqs({"Acme", "Bolt", "Cole"}, MaxRows + 1, MaxRows + 1)}

\* Canonical files of one customer and currency whose Total, Paid and Due
\* Date cells are numbers and dates, other text, or blank.
FieldCells ==
    {<<"10", "5", "2025-11-14">>,
     <<"abc", "5", "2025-11-04">>,
     <<NaN, "unpaid", "soon">>,
     <<"30", NaN, NaN>>,
     <<"30", "unpaid", "2025-11-11">>,
     <<"1,000", "0", "2025-12-31">>}
FieldInputs ==
    {Frame(Range(required_columns),
           [i \in 1..Len(pick) |->
              Cells("Acme", InvoiceIds[i], pick[i][3], pick[i][1], pick[i][2], "USD")])
     : pick \in Seqs(FieldCells, 0, MaxRows)}

Inputs == HeaderInputs \cup XeroInputs \cup CurrencyInputs
          \cup CustomerInputs \cup GroupInputs \cup FieldInputs

NoFrame == [columns |-> {}, rows |-> << >>]
\* output_path before wb.save touches it
NoFile == [state |-> "untouched", sheets |-> << >>]
NoStatus == [label |-> Label("<not computed>"), color |-> None]

(***************************************************************************)
(* generate_report as a state machine.                                     *)
(***************************************************************************)
Init ==
    /\ csv \in Inputs
    /\ df = csv
    /\ pc = "schema"
    /\ other_currencies = << >>
    /\ currency = None
    /\ currency_df = NoFrame
    /\ ret = None
    /\ pos = 0
    /\ current_customer = None
    /\ customer_balances = << >>
    /\ ws = << >>
    /\ wb = << >>
    /\ saved = NoFile
    /\ returned = "<running>"
    /\ printed = << >>
    /\ due_date = NaT
    /\ status = NoStatus

\* lines 275-289: the Xero branch
XeroBranch ==
    /\ pc = "schema"
    /\ has_xero_columns(df.columns)
    /\ df' = Consolidate(Rename(df))
    /\ pc' = "coerce"
    /\ UNCHANGED <<csv, other_currencies, currency, currency_df, ret, pos,
                   current_customer, customer_balances, ws, wb, saved,
                   returned, printed, due_date, status>>

\* lines 290-299: required columns are missing: report them and return
MissingColumns ==
    /\ pc = "schema"
    /\ ~has_xero_columns(df.columns)
    /\ missing_cols(df.columns) # << >>
    /\ printed' = Append(printed, [kind |-> "Warning: Missing columns",
                                   cols |-> missing_cols(df.columns)])
    /\ returned' = None
    /\ pc' = "done"
    /\ UNCHANGED <<csv, df, other_currencies, currency, currency_df, ret, pos,
                   current_customer, customer_balances, ws, wb, saved,
                   due_date, status>>

\* lines 290-301: the canonical columns are all there
StandardColumns ==
    /\ pc = "schema"
    /\ ~has_xero_columns(df.columns)
    /\ missing_cols(df.columns) = << >>
    /\ pc' = "coerce"
    /\ UNCHANGED <<csv, df, other_currencies, currency, currency_df, ret, pos,
                   current_customer, customer_balances, ws, wb, saved,
                   returned, printed, due_date, status>>

\* lines 303-321
CoerceFields ==
    /\ pc = "coerce"
    /\ df' = Coerce(df)
    /\ pc' = "usd"
    /\ UNCHANGED <<csv, other_currencies, currency, currency_df, ret, pos,
                   current_customer, customer_balances, ws, wb, saved,
                   returned, printed, due_date, status>>

\* usd_df = process_currency_data(df, 'USD', today); if usd_df is not None:
\* ws = wb.create_sheet(...); write_to_excel(usd_df, ws, 'USD', today)
\* up to the first iteration of write_to_excel's loop.
Process(curr, next) ==
    \/ /\ process_currency_data(df, curr, Today) = {}
       /\ pc' = next
       /\ UNCHANGED <<currency, currency_df, ret, pos, current_customer,
                      customer_balances, ws>>
    \/ \E sub \in process_currency_data(df, curr, Today) :
         /\ currency_df' = sub
         /\ currency' = curr
         /\ ret' = next
         /\ ws' = <<HeaderRow>>
         /\ pos' = 0
         /\ current_customer' = None
         /\ customer_balances' = << >>
         /\ pc' = "write"

\* lines 323-327
ProcessUSD ==
    /\ pc = "usd"
    /\ Process("USD", "eur")
    /\ UNCHANGED <<csv, df, other_currencies, wb, saved, returned, printed,
                   due_date, status>>

\* lines 329-333
ProcessEUR ==
    /\ pc = "eur"
    /\ Process("EUR", "others")
    /\ UNCHANGED <<csv, df, other_currencies, wb, saved, returned, printed,
                   due_date, status>>

\* Series.unique(): the distinct values in order of first appearance (nan
\* counts once).
RECURSIVE Unique(_)
Unique(xs) ==
    IF xs = << >> THEN << >>
    ELSE LET front == Unique(SubSeq(xs, 1, Len(xs) - 1))
             last == xs[Len(xs)]
         IN  IF last \in Range(front) THEN front ELSE Append(front, last)

\* df[~df['Currency'].isin(['USD', 'EUR'])]['Currency'].unique()
OtherCurrencyList(frame) ==
    LET other(c) == c \notin {"USD", "EUR"}
    IN  Unique(SelectSeq(Column(frame.rows, "Currency"), other))

\* line 336
OtherCurrencies ==
    /\ pc = "others"
    /\ other_currencies' = OtherCurrencyList(df)
    /\ pc' = "other"
    /\ UNCHANGED <<csv, df, currency, currency_df, ret, pos, current_customer,
                   customer_balances, ws, wb, saved, returned, printed,
                   due_date, status>>

\* lines 337-342: one iteration of the loop over the other currencies
ProcessOther ==
    /\ pc = "other"
    /\ other_currencies # << >>
    /\ other_currencies' = Tail(other_currencies)
    /\ Process(Head(other_currencies), "other")
    /\ UNCHANGED <<csv, df, wb, saved, returned, printed, due_date, status>>

\* write_to_excel lines 99-169: one iteration of the loop over the rows
WriteRow ==
    /\ pc = "write"
    /\ pos < Len(currency_df.rows)
    /\ LET row == currency_df.rows[pos + 1]
           changed == CustomerChanged(current_customer, row)
       IN  /\ ws' = ws \o (IF changed
                           THEN CloseGroup(current_customer, customer_balances)
                           ELSE << >>)
                       \o <<DataRow(pos + 1, row)>>
           /\ current_customer' = row["Customer"]
           /\ customer_balances' =
                Append(IF changed THEN << >> ELSE customer_balances,
                       row["Balance"])
    /\ pos' = pos + 1
    /\ UNCHANGED <<pc, csv, df, other_currencies, currency, currency_df, ret,
                   wb, saved, returned, printed, due_date, status>>

\* write_to_excel lines 171-212: the last group's subtotal, the grand total
\* and the summary; the worksheet is complete and generate_report goes on.
\* "source" is not part of the worksheet: it records the frame the sheet was
\* written from.
WriteTotals ==
    /\ pc = "write"
    /\ pos = Len(currency_df.rows)
    /\ \E summary \in Summary(currency_df) :
         wb' = Append(wb,
                 [title |-> currency,
                  rows |-> ws \o FinalSubtotal(current_customer, customer_balances)
                              \o <<GrandTotalRow(currency, GrandTotal(currency_df))>>,
                  summary |-> summary,
                  source |-> currency_df])
    /\ pc' = ret
    /\ ws' = << >>
    /\ pos' = 0
    /\ current_customer' = None
    /\ customer_balances' = << >>
    /\ currency_df' = NoFrame
    /\ currency' = None
    /\ ret' = None
    /\ UNCHANGED <<csv, df, other_currencies, saved, returned, printed,
                   due_date, status>>

\* lines 344-346: wb.save(output_path) of a workbook with worksheets
SaveWorkbook ==
    /\ pc = "other"
    /\ other_currencies = << >>
    /\ wb # << >>
    /\ saved' = [state |-> "written", sheets |-> wb]
    /\ printed' = Append(printed, [kind |-> "Report generated successfully",
                                   cols |-> << >>])
    /\ returned' = None
    /\ pc' = "done"
    /\ UNCHANGED <<csv, df, other_currencies, currency, currency_df, ret, pos,
                   current_customer, customer_balances, ws, wb, due_date,
                   status>>

\* lines 345, 348-351: no worksheet was created (the default sheet was
\* removed at line 321), and openpyxl refuses to write a workbook without a
\* visible sheet; it raises after opening output_path for writing.  The
\* handler prints the error and the traceback, and generate_report returns.
SaveRaises ==
    /\ pc = "other"
    /\ other_currencies = << >>
    /\ wb = << >>
    /\ saved' = [state |-> "incomplete", sheets |-> << >>]
    /\ printed' = Append(printed, [kind |-> "Error generating report",
                                   cols |-> << >>])
    /\ returned' = None
    /\ pc' = "done"
    /\ UNCHANGED <<csv, df, other_currencies, currency, currency_df, ret, pos,
                   current_customer, customer_balances, ws, wb, due_date,
                   status>>

Next ==
    \/ XeroBranch
    \/ MissingColumns
    \/ StandardColumns
    \/ CoerceFields
    \/ ProcessUSD
    \/ ProcessEUR
    \/ OtherCurrencies
    \/ ProcessOther
    \/ WriteRow
    \/ WriteTotals
    \/ SaveWorkbook
    \/ SaveRaises

Spec == Init /\ [][Next]_vars

(***************************************************************************)
(* calculate_status applied to one due date at a time.                     *)
(***************************************************************************)
InitStatus ==
    /\ due_date \in {NaT} \cup {<<Today + k>> : k \in -MaxDays..MaxDays}
    /\ status = NoStatus
    /\ pc = "status"
    /\ csv = NoFrame
    /\ df = NoFrame
    /\ other_currencies = << >>
    /\ currency = None
    /\ currency_df = NoFrame
    /\ ret = None
    /\ pos = 0
    /\ current_customer = None
    /\ customer_balances = << >>
    /\ ws = << >>
    /\ wb = << >>
    /\ saved = NoFile
    /\ returned = "<running>"
    /\ printed = << >>

CalculateStatus ==
    /\ pc = "status"
    /\ status' = calculate_status(due_date, Today)
    /\ pc' = "status done"
    /\ UNCHANGED <<csv, df, other_currencies, currency, currency_df, ret, pos,
                   current_customer, customer_balances, ws, wb, saved,
                   returned, printed, due_date>>

NextStatus == CalculateStatus

SpecStatus == InitStatus /\ [][NextStatus]_vars

(***************************************************************************)
(* Properties.                                                             *)
(***************************************************************************)
Sheets == Range(wb)
Indices(rows) == 1..Len(rows)
\* the rows of a frame that carry the customer c
RowsOf(rows, c) == {i \in Indices(rows) : rows[i]["Customer"] = c}
\* the customers a frame names (a blank cell names none)
CustomersOf(rows) == {rows[i]["Customer"] : i \in Indices(rows)} \ {NaN}
\* the places of a worksheet that hold a subtotal row for c
SubtotalsOf(sheet, c) ==
    {p \in Indices(sheet.rows) :
        sheet.rows[p].kind = "subtotal" /\ sheet.rows[p].customer = c}
SubtotalPlaces(rows) == {p \in Indices(rows) : rows[p].kind = "subtotal"}

\* C5: calculate_status is decided by days = due_date - today alone: no due
\* date gives "No Due Date" without colour; days < 0 "Overdue" in red;
\* days = 0 "Due Today" in yellow; 1..7 "Due in {days} days" in yellow;
\* 8..60 "Due in {days} days" in green; above 60 "Due in {days} days"
\* without colour.
StatusByDayDifference ==
    pc = "status done" =>
        IF due_date = NaT
        THEN status = [label |-> Label("No Due Date"), color |-> None]
        ELSE LET days == due_date[1] - Today
                 due_in == [text |-> "Due in {} days", days |-> <<days>>]
             IN  /\ days < 0 => status = [label |-> Label("Overdue"), color |-> "red"]
                 /\ days = 0 => status = [label |-> Label("Due Today"), color |-> "yellow"]
                 /\ (1 <= days /\ days <= 7) =>
                        status = [label |-> due_in, color |-> "yellow"]
                 /\ (8 <= days /\ days <= 60) =>
                        status = [label |-> due_in, color |-> "green"]
                 /\ days > 60 => status = [label |-> due_in, color |-> None]

\* a due date 7 days ahead (the last DueSoon day) has been classified
StatusBoundaryClassified ==
    /\ pc = "status done"
    /\ due_date = <<Today + 7>>
    /\ status.color = "yellow"

\* C1: in every worksheet, each customer of the currency subset has exactly
\* one subtotal row if it has at least 2 invoice rows there and none
\* otherwise, and no subtotal row names anything but such a customer.
SubtotalIffTwoInvoices ==
    \A sheet \in Sheets :
        /\ \A c \in CustomersOf(sheet.source.rows) :
              Cardinality(SubtotalsOf(sheet, c)) =
                 IF Cardinality(RowsOf(sheet.source.rows, c)) >= 2 THEN 1 ELSE 0
        /\ \A p \in SubtotalPlaces(sheet.rows) :
              sheet.rows[p].customer \in CustomersOf(sheet.source.rows)

\* a worksheet of three groups is complete: the first two have one invoice
\* and no subtotal, the last has two invoices and its subtotal
SubtotalForLastGroupOnly ==
    \E sheet \in Sheets :
        LET rows == sheet.source.rows
        IN  /\ Cardinality(RowsOf(rows, "Acme")) = 1
            /\ Cardinality(RowsOf(rows, "Bolt")) = 1
            /\ Cardinality(RowsOf(rows, "Cole")) = 2
            /\ SubtotalsOf(sheet, "Acme") = {}
            /\ SubtotalsOf(sheet, "Cole") # {}

\* the number of data rows of customer c that end at place p of rows,
\* one directly after the other
RECURSIVE RunBefore(_, _, _)
RunBefore(rows, p, c) ==
    IF p >= 1 /\ rows[p].kind = "data" /\ PyEq(rows[p].Customer, c)
    THEN 1 + RunBefore(rows, p - 1, c)
    ELSE 0

\* C7: every subtotal row stands directly after the last invoice row of the
\* group it sums up, carries that group's customer, and the accumulator
\* closed into it is as long as the run of that customer's invoice rows
\* directly before it.
SubtotalFollowsItsGroup ==
    /\ \A sheet \in Sheets :
          \A p \in SubtotalPlaces(sheet.rows) :
             LET c == sheet.rows[p].customer
                 run == RunBefore(sheet.rows, p - 1, c)
             IN  /\ run >= 2
                 /\ run = Cardinality(RowsOf(sheet.source.rows, c))
    /\ pc = "write" /\ pos > 0 =>
          /\ ws[Len(ws)].kind = "data"
          /\ ws[Len(ws)].Customer = current_customer
          /\ current_customer # NaN =>
                Len(customer_balances) = RunBefore(ws, Len(ws), current_customer)

\* a subtotal row has been written between two groups
SubtotalBetweenGroups ==
    \E sheet \in Sheets :
        \E p \in SubtotalPlaces(sheet.rows) :
            /\ sheet.rows[p + 1].kind = "blank"
            /\ sheet.rows[p + 2].kind = "data"

\* the sum of the balances that are not null among the rows I of a frame
RECURSIVE SumNonNull(_, _)
SumNonNull(rows, I) ==
    IF I = {} THEN 0
    ELSE LET i == CHOOSE x \in I : TRUE
         IN  (IF rows[i]["Balance"] = << >> THEN 0 ELSE rows[i]["Balance"][1])
             + SumNonNull(rows, I \ {i})

\* what the scan accumulates for each group of a sorted frame: the customers'
\* groups, and one group per row without a customer
GroupSums(rows) ==
    {<<c, PySum(Column(SelectSeq(rows, LAMBDA r : r["Customer"] = c), "Balance"))>>
        : c \in CustomersOf(rows)}
    \cup {<<i, rows[i]["Balance"]>> : i \in RowsOf(rows, NaN)}

RECURSIVE AddAll(_)
AddAll(S) ==
    IF S = {} THEN <<0>>
    ELSE LET g == CHOOSE x \in S : TRUE IN FAdd(g[2], AddAll(S \ {g}))

GrandTotalOf(sheet) == sheet.rows[Len(sheet.rows)]

\* the grand total row ends the worksheet and carries the sum of the
\* balances that are not null
GrandTotalSkipsNulls ==
    \A sheet \in Sheets :
        /\ GrandTotalOf(sheet).kind = "grand"
        /\ GrandTotalOf(sheet).value =
              <<SumNonNull(sheet.source.rows, Indices(sheet.source.rows))>>

\* C2: the grand total of every worksheet is the sum of the non-null
\* balances of the currency's rows, and so equals the sum over the customer
\* groups of what the scan accumulated for each group.
GrandTotalIsSumOfGroupSums ==
    /\ GrandTotalSkipsNulls
    /\ \A sheet \in Sheets :
          GrandTotalOf(sheet).value = AddAll(GroupSums(sheet.source.rows))

\* the records generate_report cut into sections: the run reached wb.save
Cut == pc = "done" /\ saved.state # "untouched"

\* the places (worksheet, row) where the record with index label x went
PlacesOf(x) ==
    UNION {{<<k, j>> : j \in {n \in Indices(wb[k].source.rows) :
                                  wb[k].source.rows[n]["index"] = x}}
           : k \in 1..Len(wb)}

\* C3: once the sections are cut, every record of the canonical record set
\* is in exactly one section.
EveryRecordInOneSection ==
    Cut => \A i \in Indices(df.rows) :
              Cardinality(PlacesOf(df.rows[i]["index"])) = 1

\* no record is in two sections, and a record with a currency is in one
RecordsWithCurrencyInOneSection ==
    Cut => \A i \in Indices(df.rows) :
              Cardinality(PlacesOf(df.rows[i]["index"])) =
                 IF df.rows[i]["Currency"] = NaN THEN 0 ELSE 1

\* the input misses an alternate column and a canonical column
MissesBoth(columns) ==
    /\ \E col \in DOMAIN xero_mapping : col \notin columns
    /\ \E col \in Range(required_columns) : col \notin columns

\* what generate_report does right on such an input: the warning names
\* exactly the missing canonical columns, nothing is renamed, no worksheet
\* and no file is written
SchemaFailureHandled ==
    (pc = "done" /\ MissesBoth(csv.columns)) =>
        /\ Len(printed) = 1
        /\ printed[1].kind = "Warning: Missing columns"
        /\ Range(printed[1].cols) = Range(required_columns) \ csv.columns
        /\ Len(printed[1].cols) = Cardinality(Range(required_columns) \ csv.columns)
        /\ df = csv
        /\ wb = << >>
        /\ saved = NoFile

\* the alternate mapping is applied only to a file with all six columns
MappingOnlyWhenComplete ==
    (pc # "schema" /\ df.columns # csv.columns) => has_xero_columns(csv.columns)

\* C4: an input that misses an alternate and a canonical column fails with
\* the missing canonical columns named, without renaming, without a report,
\* and with an error outcome for the caller (a return of None is what a
\* successful run gives, too).
SchemaFailureIsAnError ==
    /\ MappingOnlyWhenComplete
    /\ SchemaFailureHandled
    /\ (pc = "done" /\ MissesBoth(csv.columns)) => returned # None

\* Customer a may stand before Customer b in ascending order, blanks last
CustomerLeq(a, b) == b = NaN \/ (a # NaN /\ StrRank(a) <= StrRank(b))

DataRows(sheet) == SelectSeq(sheet.rows, LAMBDA r : r.kind = "data")

\* the data rows of every worksheet are the rows of its frame, in order,
\* and ascend by Customer
RowsSortedByCustomer ==
    \A sheet \in Sheets :
        LET data == DataRows(sheet)
            rows == sheet.source.rows
        IN  /\ Len(data) = Len(rows)
            /\ \A a \in Indices(data) :
                  /\ data[a].Invoice = rows[a]["Invoice #"]
                  /\ data[a].Customer = rows[a]["Customer"]
                  /\ data[a].seq = a
            /\ \A a, b \in Indices(data) :
                  a < b => CustomerLeq(data[a].Customer, data[b].Customer)

\* C6: the invoice rows of every worksheet ascend by Customer, and rows of
\* the same Customer keep the order they had in the record set.
RowsSortedStable ==
    /\ RowsSortedByCustomer
    /\ \A sheet \in Sheets :
          LET rows == sheet.source.rows
          IN  \A a, b \in Indices(rows) :
                 (a < b /\ rows[a]["Customer"] = rows[b]["Customer"])
                    => rows[a]["index"] < rows[b]["index"]

\* the worksheets titled c
SheetsTitled(c) == {k \in 1..Len(wb) : wb[k].title = c}

\* C8: once the sections are cut, every currency with a matching record has
\* exactly one worksheet and every currency value without one has none; a
\* worksheet always has at least one invoice row.
OneSectionPerCurrency ==
    /\ Cut => \A c \in CurrencyCells :
                 Cardinality(SheetsTitled(c)) =
                    IF \E i \in Indices(df.rows) : PyEq(df.rows[i]["Currency"], c)
                    THEN 1 ELSE 0
    /\ \A sheet \in Sheets :
          /\ sheet.source.rows # << >>
          /\ Len(DataRows(sheet)) = Len(sheet.source.rows)

\* a report of two worksheets was saved from records without any EUR
\* record: process_currency_data gave None for EUR and no sheet was made
SectionSkippedForAbsentCurrency ==
    /\ Cut
    /\ Len(wb) = 2
    /\ SheetsTitled("EUR") = {}
    /\ SheetsTitled("USD") # {}

\* the line-item rows of the export that carry the invoice number inv
LinesOf(inv) == {i \in Indices(csv.rows) : csv.rows[i]["InvoiceNumber"] = inv}
InvoiceNumbers == {csv.rows[i]["InvoiceNumber"] : i \in Indices(csv.rows)} \ {NaN}
\* the consolidated records with Invoice # inv
RecordsOf(inv) == {k \in Indices(df.rows) : df.rows[k]["Invoice #"] = inv}
Consolidated == pc = "coerce" /\ has_xero_columns(csv.columns)
AggregatedColumns == {"ContactName", "DueDate", "Total", "InvoiceAmountPaid", "Currency"}

\* C9 as stated: after consolidation every invoice number of the input has
\* exactly one record, and that record's fields are those of the first
\* input row with that number.
ConsolidatedFromFirstRow ==
    Consolidated =>
        /\ \A k \in Indices(df.rows) : df.rows[k]["Invoice #"] \in InvoiceNumbers
        /\ \A inv \in InvoiceNumbers :
              /\ Cardinality(RecordsOf(inv)) = 1
              /\ \A k \in RecordsOf(inv) : \A col \in AggregatedColumns :
                    df.rows[k][Renamed(col)] = csv.rows[Min(LinesOf(inv))][col]

\* C9 amended: ... and each field of that record is the first non-blank
\* value of that field among the input rows with that number (blank when
\* all of them are blank); values are taken, never summed.
ConsolidatedFromFirstValues ==
    Consolidated =>
        /\ \A k \in Indices(df.rows) : df.rows[k]["Invoice #"] \in InvoiceNumbers
        /\ \A inv \in InvoiceNumbers :
              /\ Cardinality(RecordsOf(inv)) = 1
              /\ \A k \in RecordsOf(inv) : \A col \in AggregatedColumns :
                    LET v == df.rows[k][Renamed(col)]
                        filled == {i \in LinesOf(inv) : csv.rows[i][col] # NaN}
                    IN  IF filled = {} THEN v = NaN
                        ELSE \E i \in filled :
                                /\ v = csv.rows[i][col]
                                /\ \A j \in filled : i <= j

\* an invoice of two lines was consolidated: the first line has no contact
\* name and the first total, the second has the name and another total
ConsolidatedAcrossLines ==
    /\ Consolidated
    /\ Len(csv.rows) >= 2
    /\ csv.rows[1]["InvoiceNumber"] = "INV1"
    /\ csv.rows[2]["InvoiceNumber"] = "INV1"
    /\ csv.rows[1]["ContactName"] = NaN
    /\ csv.rows[1]["Total"] = "10"
    /\ csv.rows[2]["ContactName"] = "Bolt"
    /\ csv.rows[2]["Total"] = "30"
    /\ \E k \in RecordsOf("INV1") :
          df.rows[k]["Customer"] = "Bolt" /\ df.rows[k]["Total"] = "10"

\* C10: the summary of every worksheet has exactly one entry per customer of
\* the currency subset, each with the sum of that customer's (non-null)
\* balances, in non-increasing order of balance.
SummaryPerCustomer ==
    \A sheet \in Sheets :
        LET rows == sheet.source.rows
            sm == sheet.summary
        IN  /\ {sm[i].Customer : i \in Indices(sm)} = CustomersOf(rows)
            /\ Len(sm) = Cardinality(CustomersOf(rows))
            /\ \A i \in Indices(sm) :
                  sm[i].Balance = <<SumNonNull(rows, RowsOf(rows, sm[i].Customer))>>
            /\ \A i, j \in Indices(sm) :
                  i < j => sm[i].Balance[1] >= sm[j].Balance[1]

\* a summary of two customers with different balances, the smaller one from
\* a customer with a single invoice
SummaryOfTwoCustomers ==
    \E sheet \in Sheets :
        /\ Len(sheet.summary) = 2
        /\ sheet.summary[1].Balance[1] > sheet.summary[2].Balance[1]
        /\ Cardinality(RowsOf(sheet.source.rows, sheet.summary[2].Customer)) = 1
        /\ Cardinality(RowsOf(sheet.source.rows, sheet.summary[1].Customer)) = 2


\* the rows of customer c in a frame that have a null balance
NullBalancesOf(rows, c) == {i \in RowsOf(rows, c) : rows[i]["Balance"] = << >>}

\* what the subtotal rows do carry: the sum of the balances of the
\* customer's own rows when none of them is null, and nan when one is
SubtotalOfOwnRows ==
    \A sheet \in Sheets :
        \A p \in SubtotalPlaces(sheet.rows) :
            LET rows == sheet.source.rows
                c == sheet.rows[p].customer
            IN  sheet.rows[p].value =
                   IF NullBalancesOf(rows, c) = {}
                   THEN <<SumNonNull(rows, RowsOf(rows, c))>>
                   ELSE NaNf

\* C11: every subtotal row carries the sum of the non-null balances of
\* exactly the invoice rows of its customer in the currency subset: no other
\* customer's row contributes, and a null balance in the group is left out
\* of the sum instead of making the subtotal null.
SubtotalIsSumOfNonNullBalances ==
    \A sheet \in Sheets :
        \A p \in SubtotalPlaces(sheet.rows) :
            sheet.rows[p].value =
               <<SumNonNull(sheet.source.rows,
                            RowsOf(sheet.source.rows, sheet.rows[p].customer))>>

\* the fields of df have been coerced (lines 303-313 have run)
Coerced ==
    /\ pc \notin {"schema", "coerce"}
    /\ has_xero_columns(csv.columns) \/ missing_cols(csv.columns) = << >>

\* the balance the claim gives a record
BalanceOf(total, paid) ==
    IF total = << >> THEN << >> ELSE <<total[1] - paid[1]>>

\* the frames whose rows carry a Balance: those of the completed worksheets
\* and the one being written
BalancedFrames ==
    {sheet.source : sheet \in Sheets}
    \cup (IF pc = "write" THEN {currency_df} ELSE {})

\* C12: after field coercion no record has a null Paid (a blank or
\* unparsable Paid is exactly 0), an unparsable Total or Due Date is null
\* and raises nothing, and every Balance computed downstream is Total - Paid
\* when Total is not null and null, not zero, when it is.
CoercionDefaults ==
    /\ Coerced =>
          /\ \A i \in Indices(df.rows) : Len(df.rows[i]["Paid"]) = 1
          /\ pc # "done" => printed = << >>
          /\ ~has_xero_columns(csv.columns) =>
                /\ Len(df.rows) = Len(csv.rows)
                /\ \A i \in Indices(df.rows) :
                      LET raw == csv.rows[i]
                          rec == df.rows[i]
                      IN  /\ rec["Paid"] =
                                IF raw["Paid"] \in DOMAIN NumText
                                THEN <<NumText[raw["Paid"]]>> ELSE <<0>>
                          /\ rec["Total"] =
                                IF raw["Total"] \in DOMAIN NumText
                                THEN <<NumText[raw["Total"]]>> ELSE << >>
                          /\ rec["Due Date"] =
                                IF raw["Due Date"] \in DOMAIN DateText
                                THEN <<DateText[raw["Due Date"]]>> ELSE << >>
    /\ \A frame \in BalancedFrames :
          \A i \in Indices(frame.rows) :
              /\ Len(frame.rows[i]["Paid"]) = 1
              /\ frame.rows[i]["Balance"] =
                    BalanceOf(frame.rows[i]["Total"], frame.rows[i]["Paid"])

\* a report was saved from a file with an unparsable Total and a blank
\* Paid: the first record has a null Total and a null Balance, the second
\* has Paid 0 and the Balance of its Total
CoercedUnparsableAndBlank ==
    /\ pc = "done"
    /\ saved.state = "written"
    /\ Len(csv.rows) = 2
    /\ csv.rows[1]["Total"] = "abc"
    /\ csv.rows[2]["Paid"] = NaN
    /\ csv.rows[2]["Due Date"] = NaN
    /\ \E sheet \in Sheets :
          \E i, j \in Indices(sheet.source.rows) :
              LET a == sheet.source.rows[i]
                  b == sheet.source.rows[j]
              IN  /\ a["index"] = 0 /\ b["index"] = 1
                  /\ a["Total"] = << >> /\ a["Balance"] = << >>
                  /\ b["Paid"] = <<0>> /\ b["Balance"] = <<30>>
                  /\ b["Due Date"] = << >>

\* generate_report ended without a report
Failed == pc = "done" /\ saved.state # "written"

\* what generate_report does right about its output file: output_path is
\* touched only by the save step, when every section is complete; a schema
\* error leaves it alone; a written file holds every worksheet; and a run
\* that ends without a report has printed the warning or the error
SavedLastAndFailureReported ==
    /\ saved.state # "untouched" =>
          /\ pc = "done"
          /\ other_currencies = << >>
          /\ ws = << >>
    /\ saved.state = "written" => saved.sheets = wb /\ wb # << >>
    /\ (pc = "done" /\ ~has_xero_columns(csv.columns)
                    /\ missing_cols(csv.columns) # << >>) => saved = NoFile
    /\ Failed =>
          /\ printed # << >>
          /\ printed[Len(printed)].kind \in
                {"Warning: Missing columns", "Error generating report"}

\* C13: the output file is written only as the last step, after every
\* section is complete; a schema error or a failure before the save step
\* leaves the file alone; no failure leaves a half-written file in place;
\* and the failure is reported.
NoHalfWrittenOutput ==
    /\ SavedLastAndFailureReported
    /\ saved.state # "incomplete"

=============================================================================
